---- MODULE Spec2Model ----
(***************************************************************************)
(* Code execution subsystem: CodeExecutionTool (day_36/code_execution_tool *)
(* .py) routing a source either to CodeExecutor (code_executor.py, one     *)
(* worker subprocess with a wall-clock timeout) or to SandboxExecutor      *)
(* (sandbox.py, one docker container per call), with ResourceLimiter       *)
(* (resource_limiter.py) sampling the container.                           *)
(*                                                                         *)
(* The docker daemon, the docker client library and the operating system   *)
(* are the environment: every call the code makes into them is given the   *)
(* outcomes that call can have (it returns, or it raises a DockerException *)
(* or raises something else), chosen nondeterministically.                 *)
(*                                                                         *)
(* Three further pieces have a specification of their own over the same    *)
(* variables: the retry helpers (day_33/error_handling/retry_mechanisms.py,*)
(* RetrySpec), the connection pool (day_37/connection_pool.py, PoolSpec)   *)
(* and ResourceLimiter.enforce_time_limit (AlarmSpec).                     *)
(***************************************************************************)
EXTENDS Integers, Sequences, FiniteSets, TLC

\* ------------------------------------------------------------------ bounds
\* number of execute calls made on the tool
MaxCalls == 2
\* largest timeout value a caller passes, in ticks of the model's clock
MaxTimeout == 2
\* number of containers the docker daemon can hold (SandboxSpec)
MaxContainers == 3
\* number of direct calls made on one SandboxExecutor (SandboxSpec)
MaxOps == 4
\* largest max_retries a caller configures (RetrySpec)
MaxRetries == 3
\* largest pool_size, number of threads using the pool, and number of
\* connections sqlite3.connect ever hands out (PoolSpec)
MaxPoolSize == 2
MaxThreads == 3
MaxConns == 3

\* Python's None
null == "null"

\* an optional argument: <<>> when it is omitted (None), <<v>> when it is v
Omitted == <<>>

\* ------------------------------------------------------------ exceptions
\* docker.errors.DockerException and its subclasses (APIError, NotFound, ...)
DockerExcs == {"APIError"}
\* what the docker client raises that is no DockerException: the transport's
\* requests.exceptions.ConnectionError / ReadTimeout
OtherExcs == {"ConnectionError"}

IsDockerException(e) == e \in DockerExcs \cup {"DockerException"}

\* --------------------------------------------------------------- sources
\* A submitted source, by what matters to the code under study:
\*   parse  what ast.parse does with it: "ok", "syntax" (raises SyntaxError)
\*          or "raises" (raises something else: TypeError for a non-string,
\*          ValueError for a null byte, RecursionError, MemoryError)
\*   halts, dur   whether the program ends, and after how many ticks
\*   exit, stdout, stderr   what the program leaves behind when it ends
\*          (stdout is what it has written so far when it is killed)
Streams == {"", "text"}

\* the programs that end: each exit status with something on one stream only
\* (so an empty standard output, an empty standard error, and standard error
\* written by a program that exits 0 all occur), ending within every timeout
\* (dur = 1) or after every timeout (dur = MaxTimeout + 1)
Endings ==
    {e \in [exit : {0, 1}, stdout : Streams, stderr : Streams] :
        (e.stdout = "") # (e.stderr = "")}

ValidSources ==
    {[parse |-> "ok", halts |-> TRUE, dur |-> d,
      exit |-> e.exit, stdout |-> e.stdout, stderr |-> e.stderr] :
        d \in {1, MaxTimeout + 1}, e \in Endings}
    \cup
    [parse : {"ok"}, halts : {FALSE}, dur : {0},
     exit : {0}, stdout : {"text"}, stderr : {""}]

\* a source ast.parse refuses, when it is handed to an interpreter all the
\* same: the interpreter reports the error on standard error and exits 1
InvalidSources ==
    [parse : {"syntax", "raises"}, halts : {TRUE}, dur : {1},
     exit : {1}, stdout : {""}, stderr : {"text"}]

Sources == ValidSources \cup InvalidSources

\* ------------------------------------------------------------ CodeExecutor
\* validate_syntax with the except clause returning valid: a source that does
\* not parse goes on to the executors
validate_syntax_accepting(code) ==
    CASE code.parse = "raises" -> [raised |-> "ValueError", valid |-> FALSE,
                                   error |-> null]
      [] OTHER                 -> [raised |-> null, valid |-> TRUE, error |-> null]

\* validate_syntax: ast.parse inside try/except SyntaxError. The outcome is
\* the returned mapping, or the exception that escapes.
validate_syntax(code) ==
    CASE code.parse = "ok"     -> [raised |-> null, valid |-> TRUE, error |-> null]
      [] code.parse = "syntax" -> [raised |-> null, valid |-> FALSE,
                                   error |-> "Syntax error at line"]
      [] OTHER                 -> [raised |-> "ValueError", valid |-> FALSE,
                                   error |-> null]

\* the mapping returned for a source that failed validation
SyntaxErrorResult(validation) ==
    [success |-> FALSE, output |-> null, error |-> validation.error,
     error_type |-> "SyntaxError"]

\* the non-zero branch written with `result.stderr or None`
CompletedResult_stderr_or_none(returncode, stdout, stderr) ==
    IF returncode = 0
    THEN [success |-> TRUE, output |-> stdout, error |-> null, error_type |-> null]
    ELSE [success |-> FALSE, output |-> stdout,
          error |-> IF stderr = "" THEN null ELSE stderr,
          error_type |-> "RuntimeError"]

\* subprocess.run returned: the branch on result.returncode
CompletedResult(returncode, stdout, stderr) ==
    IF returncode = 0
    THEN [success |-> TRUE, output |-> stdout, error |-> null, error_type |-> null]
    ELSE [success |-> FALSE, output |-> stdout, error |-> stderr,
          error_type |-> "RuntimeError"]

\* the timeout left to the generic except clause
TimeoutResult_generic(timeout) ==
    [success |-> FALSE, output |-> null, error |-> "str(TimeoutExpired)",
     error_type |-> "TimeoutExpired"]

\* except subprocess.TimeoutExpired
TimeoutResult(timeout) ==
    [success |-> FALSE, output |-> null,
     error |-> "Execution timed out after " \o ToString(timeout) \o " seconds",
     error_type |-> "TimeoutError"]

\* except Exception as e: str(e) and type(e).__name__
ExceptionResult(e) ==
    [success |-> FALSE, output |-> null, error |-> "str(" \o e \o ")",
     error_type |-> e]

\* --------------------------------------------------------- ResourceLimiter
\* A sample of the container: o.exc is what container.stats raised (null when
\* it returned), o.usage_mb and o.cpu the figures it returned. The memory
\* percentage is taken against the limit the daemon reports for the container.
StatsOutcomes ==
    [exc : {null} \cup DockerExcs, usage_mb : {16}, cpu : {0}]

monitor_resources(c, o) ==
    IF o.exc # null
    THEN [success |-> FALSE, error |-> "str(" \o o.exc \o ")"]
    ELSE [success |-> TRUE, cpu_percent |-> o.cpu, memory_mb |-> o.usage_mb,
          memory_percent |-> IF c.mem_limit > 0
                             THEN (o.usage_mb * 100) \div c.mem_limit ELSE 0,
          error |-> null]

\* --------------------------------------------------------- SandboxExecutor
\* cpu_limit is kept in percent (0.5 is 50), so that
\* int(cpu_limit * 100000) is cpu_limit * 1000.
CpuPeriod == 100000
CpuQuota(cpu_limit) == cpu_limit * (CpuPeriod \div 100)

\* SandboxExecutor.__init__ once docker.from_env() has returned
NewSandbox(memory_limit_mb, cpu_limit, timeout) ==
    [container |-> 0, memory_limit_mb |-> memory_limit_mb,
     cpu_limit |-> cpu_limit, timeout |-> timeout]

\* What a call into the docker client does: at = "none" when every request of
\* the call succeeds, else the request that fails and the exception it raises.
Faults(requests) ==
    {[at |-> "none", exc |-> null]}
    \cup [at : requests, exc : DockerExcs \cup OtherExcs]

CreateOutcomes == Faults({"image", "create", "start"})
CleanupOutcomes == Faults({"stop", "remove"})

\* containers.create without network_mode="none": the daemon's default network
NewContainer_bridge(s) ==
    [state |-> "created", mem_limit |-> s.memory_limit_mb,
     cpu_quota |-> CpuQuota(s.cpu_limit), cpu_period |-> CpuPeriod,
     network_mode |-> "bridge"]

\* the container containers.create makes for sandbox s
NewContainer(s) ==
    [state |-> "created", mem_limit |-> s.memory_limit_mb,
     cpu_quota |-> CpuQuota(s.cpu_limit), cpu_period |-> CpuPeriod,
     network_mode |-> "none"]

\* what a method leaves: the instance, the daemon's containers, the returned
\* mapping (ret) or the exception that escaped it (raised)
Returned(s, cs, ret) == [sb |-> s, containers |-> cs, ret |-> ret, raised |-> null]
Raised(s, cs, e) == [sb |-> s, containers |-> cs, ret |-> null, raised |-> e]

Failure(e) == [success |-> FALSE, error |-> "str(" \o e \o ")"]
Success == [success |-> TRUE, error |-> null]

\* try: ... except DockerException as e: return failure; anything else escapes
CatchDocker(s, cs, e) ==
    IF IsDockerException(e) THEN Returned(s, cs, Failure(e)) ELSE Raised(s, cs, e)

\* create_container: images.get / pull, containers.create (the handle is
\* stored as soon as create returns), container.start
create_container(s, cs, o) ==
    LET id == Len(cs) + 1
        held == [s EXCEPT !.container = id]
    IN  CASE o.at = "none" ->
               Returned(held, Append(cs, [NewContainer(s) EXCEPT !.state = "running"]),
                        Success)
          [] o.at = "start" -> CatchDocker(held, Append(cs, NewContainer(s)), o.exc)
          [] OTHER -> CatchDocker(s, cs, o.exc)

\* cleanup: stop, remove, drop the handle
cleanup(s, cs, o) ==
    LET c == s.container
    IN  IF c = 0 THEN Returned(s, cs, Success)
        ELSE CASE o.at = "none" ->
                    Returned([s EXCEPT !.container = 0],
                             [cs EXCEPT ![c].state = "removed"], Success)
               [] o.at = "remove" ->
                    CatchDocker(s, [cs EXCEPT ![c].state = "exited"], o.exc)
               [] OTHER -> CatchDocker(s, cs, o.exc)

\* get_resource_usage
get_resource_usage(s, cs, o) ==
    IF s.container = 0
    THEN [success |-> FALSE, error |-> "No container running"]
    ELSE monitor_resources(cs[s.container], o)

\* What container.update does when asked to change a quota: exc is what it
\* raised (null when the daemon applied the change).
UpdateOutcomes == {null} \cup DockerExcs \cup OtherExcs

\* container.update(mem_limit=...) that leaves the quotas it is not given at the
\* daemon's defaults
set_memory_limit_resetting(cs, c, limit_mb, exc) ==
    IF exc # null
    THEN [containers |-> cs, ret |-> Failure(exc)]
    ELSE [containers |-> [cs EXCEPT ![c].mem_limit = limit_mb, ![c].cpu_quota = 0],
          ret |-> Success]

\* ResourceLimiter.set_memory_limit(container, limit_mb) on container c
set_memory_limit(cs, c, limit_mb, exc) ==
    IF exc # null
    THEN [containers |-> cs, ret |-> Failure(exc)]
    ELSE [containers |-> [cs EXCEPT ![c].mem_limit = limit_mb], ret |-> Success]

\* ResourceLimiter.set_cpu_limit(container, cpu_quota) on container c
set_cpu_limit(cs, c, cpu_quota, exc) ==
    IF exc # null
    THEN [containers |-> cs, ret |-> Failure(exc)]
    ELSE [containers |-> [cs EXCEPT ![c].cpu_quota = CpuQuota(cpu_quota),
                                    ![c].cpu_period = CpuPeriod],
          ret |-> Success]

\* a mapping with no key
EmptyDict == [k \in {} |-> null]

\* SandboxExecutor.update_limits(memory_mb, cpu_limit); mo and co are what the
\* memory update and the CPU update do
update_limits(s, cs, memory_mb, cpu_limit, mo, co) ==
    IF s.container = 0
    THEN Returned(s, cs, [success |-> FALSE, error |-> "No container running"])
    ELSE LET m == IF memory_mb # Omitted
                  THEN set_memory_limit(cs, s.container, memory_mb[1], mo)
                  ELSE [containers |-> cs, ret |-> null]
             c == IF cpu_limit # Omitted
                  THEN set_cpu_limit(m.containers, s.container, cpu_limit[1], co)
                  ELSE [containers |-> m.containers, ret |-> null]
             results == (IF memory_mb # Omitted THEN [memory |-> m.ret] ELSE EmptyDict)
                        @@ (IF cpu_limit # Omitted THEN [cpu |-> c.ret] ELSE EmptyDict)
         IN  Returned(s, c.containers, [success |-> TRUE, results |-> results])

\* exec_run(demux=True) hands back (stdout, stderr) as bytes, None for a
\* stream nothing was written to
Demux(stdout, stderr) ==
    <<IF stdout = "" THEN null ELSE stdout, IF stderr = "" THEN null ELSE stderr>>

\* output[i].decode() if output[i] else ""
Decode(stream) == IF stream = null THEN "" ELSE stream

\* execute_in_container once exec_run has returned (exit_code, output)
ExecRunResult(exit_code, output) ==
    LET stdout == Decode(output[1])
        stderr == Decode(output[2])
    IN  IF exit_code = 0
        THEN [success |-> TRUE, output |-> stdout, error |-> null, error_type |-> null]
        ELSE [success |-> FALSE, output |-> stdout, error |-> stderr,
              error_type |-> "RuntimeError"]

\* execute_in_container when the container it had to create was not created
ContainerErrorResult(create_result) ==
    [success |-> FALSE, output |-> null,
     error |-> "Container creation failed: " \o create_result.error,
     error_type |-> "ContainerError"]

\* ------------------------------------------------------------------- state
VARIABLES
    tool,        \* the CodeExecutionTool: use_sandbox, memory_limit_mb, cpu_limit, timeout
    pc,          \* where the caller of the tool is: "idle", "direct_wait" (inside
                 \* subprocess.run), "exec_wait" (inside exec_run), "returned", "raised"
    call,        \* the call in progress: op is "execute", "monitor" or "update_limits",
                 \* the rest its arguments; timeout is the effective one
    worker,      \* the worker subprocess of the call: "none", "running", "exited", "killed"
    spawns,      \* subprocess.run calls made by the call
    elapsed,     \* ticks since the worker or the exec_run started
    sb,          \* the SandboxExecutor in use
    containers,  \* the docker daemon's containers, by id 1..Len
    result,      \* what the last call returned
    ncalls,      \* calls made so far
    base,        \* Len(containers) when the call (SandboxSpec: the instance) started
    provisions,  \* create_container calls made by the call
    exec_on,     \* states the target container was in at each exec_run submission
    teardown,    \* how the call's cleanup ended: "none", "ok", "failed", "raised"
    exec_end,    \* how the call's exec_run ended: "none", "returned", "raised"
    retry,       \* one call of retry_with_backoff's wrapper or of retry_operation
    pool,        \* one ConnectionPool and the threads that use it
    alarm        \* the process's SIGALRM timer, its handler, and the caller of
                 \* enforce_time_limit

vars == <<tool, pc, call, worker, spawns, elapsed, sb, containers, result, ncalls,
          base, provisions, exec_on, teardown, exec_end, retry, pool, alarm>>

\* the state of the code execution subsystem, and the state of the rest
toolVars == <<tool, pc, call, worker, spawns, elapsed, sb, containers, result,
              ncalls, base, provisions, exec_on, teardown, exec_end>>
aside == <<retry, pool, alarm>>

\* no retried call and no pool exist
NoRetry == [pc |-> "none"]
NoPool == [closed |-> TRUE]
NoAlarm == [pc |-> "none"]

DefaultMemoryLimitMb == 128
DefaultCpuLimit == 50

NoCall == [op |-> "none", code |-> CHOOSE c \in InvalidSources : c.parse = "syntax",
           sandbox |-> "None", timeout |-> 0, memory_mb |-> Omitted,
           cpu_limit |-> Omitted]
NoResult == [success |-> FALSE, output |-> null, error |-> null, error_type |-> null]

\* CodeExecutionTool.__init__
Init ==
    /\ tool \in [use_sandbox : BOOLEAN, memory_limit_mb : {DefaultMemoryLimitMb},
                 cpu_limit : {DefaultCpuLimit}, timeout : {MaxTimeout}]
    /\ pc = "idle"
    /\ call = NoCall
    /\ worker = "none"
    /\ spawns = 0
    /\ elapsed = 0
    /\ sb = NewSandbox(DefaultMemoryLimitMb, DefaultCpuLimit, 1)
    /\ containers = <<>>
    /\ result = NoResult
    /\ ncalls = 0
    /\ base = 0
    /\ provisions = 0
    /\ exec_on = {}
    /\ teardown = "none"
    /\ exec_end = "none"
    /\ retry = NoRetry
    /\ pool = NoPool
    /\ alarm = NoAlarm

\* ------------------------------------------------------- CodeExecutionTool
\* timeout = timeout or self.timeout (None and 0 are both falsy; 0 stands for both)
EffectiveTimeout(timeout, self_timeout) == IF timeout = 0 THEN self_timeout ELSE timeout

\* if self.use_sandbox or sandbox (the argument is None, False or True)
SandboxArgs == {"None", "False", "True"}

\* the test written `sandbox is not None`
UseSandbox_not_none(use_sandbox, sandbox) == use_sandbox \/ sandbox # "None"

UseSandbox(use_sandbox, sandbox) == use_sandbox \/ sandbox = "True"

\* how cleanup ended, for the record of the call
TeardownOf(s, cl) ==
    CASE cl.raised # null -> "raised"
      [] ~cl.ret.success  -> "failed"
      [] s.container = 0  -> "none"
      [] OTHER            -> "ok"

\* _execute_sandboxed from the moment execute_in_container has returned res:
\* the sandboxed flag, the usage sample, the return through __exit__ (cleanup),
\* and the except clause when cleanup raises
AfterExecute(res, s, cs, uo, co) ==
    LET marked == [sandboxed |-> TRUE] @@ res
        usage == get_resource_usage(s, cs, uo)
        withUsage == IF usage.success
                     THEN [resource_usage |-> [cpu_percent |-> usage.cpu_percent,
                                               memory_mb |-> usage.memory_mb]] @@ marked
                     ELSE marked
        cl == cleanup(s, cs, co)
    IN  [result |-> IF cl.raised # null
                    THEN [sandboxed |-> TRUE] @@ ExceptionResult(cl.raised)
                    ELSE withUsage,
         sb |-> cl.sb, containers |-> cl.containers, teardown |-> TeardownOf(s, cl)]

\* _execute_sandboxed when execute_in_container raised e: __exit__ runs cleanup,
\* then the except clause builds the result from e, or from what cleanup raised
AfterRaise(e, s, cs, co) ==
    LET cl == cleanup(s, cs, co)
    IN  [result |-> [sandboxed |-> TRUE] @@
                    ExceptionResult(IF cl.raised # null THEN cl.raised ELSE e),
         sb |-> cl.sb, containers |-> cl.containers, teardown |-> TeardownOf(s, cl)]

\* execute_with_monitoring from the moment execute_in_container has returned
\* res: the usage sample, the return through __exit__ (cleanup), and the except
\* clause when cleanup raises
AfterMonitored(res, s, cs, uo, co) ==
    LET usage == get_resource_usage(s, cs, uo)
        cl == cleanup(s, cs, co)
    IN  [result |-> IF cl.raised # null
                    THEN [error |-> "str(" \o cl.raised \o ")"]
                    ELSE [execution |-> res,
                          resources |-> IF usage.success THEN <<usage>> ELSE <<>>],
         sb |-> cl.sb, containers |-> cl.containers, teardown |-> TeardownOf(s, cl)]

\* execute_with_monitoring when execute_in_container raised e
AfterMonitoredRaise(e, s, cs, co) ==
    LET cl == cleanup(s, cs, co)
    IN  [result |-> [error |-> "str(" \o (IF cl.raised # null THEN cl.raised ELSE e)
                                     \o ")"],
         sb |-> cl.sb, containers |-> cl.containers, teardown |-> TeardownOf(s, cl)]

\* the two callers of the sandbox: what each makes of a returned result, of a
\* raised exception, and of an exception raised before the with body
AfterReturn(op, res, s, cs, uo, co) ==
    IF op = "monitor" THEN AfterMonitored(res, s, cs, uo, co)
                      ELSE AfterExecute(res, s, cs, uo, co)

AfterExc(op, e, s, cs, co) ==
    IF op = "monitor" THEN AfterMonitoredRaise(e, s, cs, co)
                      ELSE AfterRaise(e, s, cs, co)

EnterFailed(op, e) ==
    IF op = "monitor" THEN [error |-> "str(" \o e \o ")"]
                      ELSE [sandboxed |-> TRUE] @@ ExceptionResult(e)

\* the call is over with outcome f (of AfterExecute or AfterRaise)
Finish(f) ==
    /\ result' = f.result
    /\ sb' = f.sb
    /\ containers' = f.containers
    /\ teardown' = f.teardown
    /\ pc' = "returned"

\* execute_in_container reaches exec_run with sandbox s: the command is submitted
\* to the container s holds; a container that is not running refuses it
Submit(op, s, cs) ==
    /\ exec_on' = {cs[s.container].state}
    /\ IF cs[s.container].state = "running"
       THEN /\ pc' = "exec_wait"
            /\ sb' = s
            /\ containers' = cs
            /\ result' = NoResult
            /\ teardown' = "none"
            /\ exec_end' = "none"
       ELSE /\ exec_end' = "raised"
            /\ \E uo \in StatsOutcomes, co \in CleanupOutcomes :
                 Finish(AfterReturn(op, ExceptionResult("APIError"), s, cs, uo, co))

\* execute_in_container with no container held: create_container() again
EnsureContainer(op, s, cs) ==
    \E o2 \in CreateOutcomes :
      LET c2 == create_container(s, cs, o2)
      IN  IF c2.raised # null
          THEN /\ exec_on' = {} /\ exec_end' = "none"
               /\ \E co \in CleanupOutcomes :
                    Finish(AfterExc(op, c2.raised, c2.sb, c2.containers, co))
          ELSE IF ~c2.ret.success
          THEN /\ exec_on' = {} /\ exec_end' = "none"
               /\ \E uo \in StatsOutcomes, co \in CleanupOutcomes :
                    Finish(AfterReturn(op, ContainerErrorResult(c2.ret),
                                       c2.sb, c2.containers, uo, co))
          ELSE Submit(op, c2.sb, c2.containers)

\* the with statement of _execute_sandboxed and of execute_with_monitoring:
\* SandboxExecutor(...), __enter__, execute_in_container up to the exec_run call
EnterSandbox(op, timeout) ==
    /\ worker' = "none"
    /\ spawns' = 0
    /\ elapsed' = 0
    /\ LET s0 == NewSandbox(tool.memory_limit_mb, tool.cpu_limit, timeout)
       IN  \/ \* docker.from_env() raises in the constructor
              /\ Finish([result |-> EnterFailed(op, "DockerException"),
                         sb |-> s0, containers |-> containers, teardown |-> "none"])
              /\ provisions' = 0
              /\ exec_on' = {} /\ exec_end' = "none"
           \/ \E o1 \in CreateOutcomes :
                LET c1 == create_container(s0, containers, o1)
                IN  IF c1.raised # null
                    THEN \* __enter__ raised: the with body and __exit__ do not run
                         /\ Finish([result |-> EnterFailed(op, c1.raised),
                                    sb |-> c1.sb, containers |-> c1.containers,
                                    teardown |-> "none"])
                         /\ provisions' = 1
                         /\ exec_on' = {} /\ exec_end' = "none"
                    ELSE IF c1.sb.container # 0
                    THEN /\ provisions' = 1
                         /\ Submit(op, c1.sb, c1.containers)
                    ELSE /\ provisions' = 2
                         /\ EnsureContainer(op, c1.sb, c1.containers)

\* execute, sandboxed branch
ExecuteSandboxed(timeout) == EnterSandbox("execute", timeout)

\* execute, direct branch: CodeExecutor.execute up to the wait inside
\* subprocess.run; spawn is what Popen raised (null when the worker started)
ExecuteDirect(timeout) ==
    /\ spawns' = 1
    /\ elapsed' = 0
    /\ provisions' = 0
    /\ exec_on' = {} /\ exec_end' = "none"
    /\ teardown' = "none"
    /\ UNCHANGED <<sb, containers>>
    /\ \E spawn \in {null, "OSError"} :
         IF spawn # null
         THEN /\ worker' = "none"
              /\ result' = [sandboxed |-> FALSE] @@ ExceptionResult(spawn)
              /\ pc' = "returned"
         ELSE /\ worker' = "running"
              /\ pc' = "direct_wait"
              /\ result' = NoResult

\* CodeExecutionTool.execute(code, sandbox, timeout), up to its first wait
Execute(code, sandbox, timeout) ==
    /\ UNCHANGED aside
    /\ pc = "idle"
    /\ ncalls < MaxCalls
    /\ ncalls' = ncalls + 1
    /\ base' = Len(containers)
    /\ call' = [NoCall EXCEPT !.op = "execute", !.code = code, !.sandbox = sandbox,
                              !.timeout = EffectiveTimeout(timeout, tool.timeout)]
    /\ UNCHANGED tool
    /\ LET validation == validate_syntax(code)
       IN  IF validation.raised # null
           THEN /\ pc' = "raised"
                /\ result' = NoResult
                /\ worker' = "none"
                /\ spawns' = 0
                /\ elapsed' = 0
                /\ provisions' = 0
                /\ teardown' = "none"
                /\ exec_on' = {} /\ exec_end' = "none"
                /\ UNCHANGED <<sb, containers>>
           ELSE IF ~validation.valid
           THEN /\ pc' = "returned"
                /\ result' = [sandboxed |-> FALSE] @@ SyntaxErrorResult(validation)
                /\ worker' = "none"
                /\ spawns' = 0
                /\ elapsed' = 0
                /\ provisions' = 0
                /\ teardown' = "none"
                /\ exec_on' = {} /\ exec_end' = "none"
                /\ UNCHANGED <<sb, containers>>
           ELSE IF UseSandbox(tool.use_sandbox, sandbox)
           THEN ExecuteSandboxed(EffectiveTimeout(timeout, tool.timeout))
           ELSE ExecuteDirect(EffectiveTimeout(timeout, tool.timeout))

\* time passes while the caller waits. In subprocess.run the wait ends at the
\* worker's exit or at the timeout, whichever is first; exec_run is given
\* timeout=self.timeout but the wait it makes ends only at the command's exit.
Tick ==
    /\ UNCHANGED aside
    /\ \/ /\ pc = "direct_wait"
          /\ elapsed < call.timeout
          /\ call.code.halts => elapsed < call.code.dur
       \/ /\ pc = "exec_wait"
          /\ IF call.code.halts THEN elapsed < call.code.dur
                                ELSE elapsed < MaxTimeout + 1
    /\ elapsed' = elapsed + 1
    /\ UNCHANGED <<tool, pc, call, worker, spawns, sb, containers, result, ncalls,
                   base, provisions, exec_on, teardown, exec_end>>

\* subprocess.run returns: the worker exited within the timeout
WorkerExit ==
    /\ UNCHANGED aside
    /\ pc = "direct_wait"
    /\ call.code.halts
    /\ elapsed = call.code.dur
    /\ worker' = "exited"
    /\ result' = [sandboxed |-> FALSE] @@
                 CompletedResult(call.code.exit, call.code.stdout, call.code.stderr)
    /\ pc' = "returned"
    /\ UNCHANGED <<tool, call, spawns, elapsed, sb, containers, ncalls, base,
                   provisions, exec_on, teardown, exec_end>>

\* what subprocess.run does to the worker before it raises TimeoutExpired:
\* process.kill() and process.wait()
KillWorker(w) == "killed"

\* subprocess.run raises TimeoutExpired: the timeout elapsed first
DirectTimeout ==
    /\ UNCHANGED aside
    /\ pc = "direct_wait"
    /\ elapsed = call.timeout
    /\ worker' = KillWorker(worker)
    /\ result' = [sandboxed |-> FALSE] @@ TimeoutResult(call.timeout)
    /\ pc' = "returned"
    /\ UNCHANGED <<tool, call, spawns, elapsed, sb, containers, ncalls, base,
                   provisions, exec_on, teardown, exec_end>>

\* exec_run returns (exit_code, output): the command ended
ExecReturn(uo, co) ==
    /\ UNCHANGED aside
    /\ pc = "exec_wait"
    /\ call.code.halts
    /\ elapsed = call.code.dur
    /\ Finish(AfterReturn(call.op,
           ExecRunResult(call.code.exit, Demux(call.code.stdout, call.code.stderr)),
           sb, containers, uo, co))
    /\ exec_end' = "returned"
    /\ UNCHANGED <<tool, call, worker, spawns, elapsed, ncalls, base, provisions,
                   exec_on>>

\* exec_run raises e (the daemon or the connection failed, or the client
\* rejected the call's arguments): caught inside execute_in_container
ExecRunExcs == DockerExcs \cup {"TypeError"}

ExecRaise(e, uo, co) ==
    /\ UNCHANGED aside
    /\ pc = "exec_wait"
    /\ Finish(AfterReturn(call.op, ExceptionResult(e), sb, containers, uo, co))
    /\ exec_end' = "raised"
    /\ UNCHANGED <<tool, call, worker, spawns, elapsed, ncalls, base, provisions,
                   exec_on>>

\* if not self.use_sandbox, at the head of execute_with_monitoring
MonitoringRefused_never(use_sandbox) == FALSE

MonitoringRefused(use_sandbox) == ~use_sandbox

\* CodeExecutionTool.execute_with_monitoring(code), up to its first wait
ExecuteWithMonitoring(code) ==
    /\ UNCHANGED aside
    /\ pc = "idle"
    /\ ncalls < MaxCalls
    /\ ncalls' = ncalls + 1
    /\ base' = Len(containers)
    /\ call' = [NoCall EXCEPT !.op = "monitor", !.code = code,
                              !.timeout = tool.timeout]
    /\ UNCHANGED tool
    /\ IF MonitoringRefused(tool.use_sandbox)
       THEN /\ pc' = "returned"
            /\ result' = [error |-> "Monitoring requires sandbox mode"]
            /\ worker' = "none"
            /\ spawns' = 0
            /\ elapsed' = 0
            /\ provisions' = 0
            /\ teardown' = "none"
            /\ exec_on' = {} /\ exec_end' = "none"
            /\ UNCHANGED <<sb, containers>>
       ELSE EnterSandbox("monitor", tool.timeout)

\* if memory_mb is not None: self.memory_limit_mb = memory_mb (and the same
\* for cpu_limit), with the assignment left out
SetLimit_ignored(current, arg) == current

SetLimit(current, arg) == IF arg = Omitted THEN current ELSE arg[1]

\* the values a caller passes for memory_mb and for cpu_limit (in percent of
\* one CPU, as tool.cpu_limit)
MemoryArgs == {Omitted, <<2 * DefaultMemoryLimitMb>>}
CpuArgs == {Omitted, <<DefaultCpuLimit + 30>>}

\* CodeExecutionTool.update_limits(memory_mb, cpu_limit)
UpdateLimits(memory_mb, cpu_limit) ==
    /\ UNCHANGED aside
    /\ pc = "idle"
    /\ ncalls < MaxCalls
    /\ ncalls' = ncalls + 1
    /\ call' = [NoCall EXCEPT !.op = "update_limits", !.memory_mb = memory_mb,
                              !.cpu_limit = cpu_limit]
    /\ tool' = [tool EXCEPT
                  !.memory_limit_mb = SetLimit(tool.memory_limit_mb, memory_mb),
                  !.cpu_limit = SetLimit(tool.cpu_limit, cpu_limit)]
    /\ result' = [success |-> TRUE, memory_mb |-> tool'.memory_limit_mb,
                  cpu_limit |-> tool'.cpu_limit]
    /\ pc' = "returned"
    /\ UNCHANGED <<worker, spawns, elapsed, sb, containers, base, provisions,
                   exec_on, teardown, exec_end>>

\* the caller has its answer; the tool is ready for the next call
Done ==
    /\ UNCHANGED aside
    /\ pc \in {"returned", "raised"}
    /\ pc' = "idle"
    /\ call' = NoCall
    /\ result' = NoResult
    /\ worker' = "none"
    /\ spawns' = 0
    /\ elapsed' = 0
    /\ sb' = NewSandbox(DefaultMemoryLimitMb, DefaultCpuLimit, 1)
    /\ provisions' = 0
    /\ exec_on' = {} /\ exec_end' = "none"
    /\ teardown' = "none"
    /\ base' = Len(containers)
    /\ UNCHANGED <<tool, containers, ncalls>>

CallTimeouts == 0..MaxTimeout

\* the sources handed to execute_with_monitoring: those that fail validation
\* and the programs that end at once
MonitoredSources == {c \in Sources : c.halts /\ c.dur = 1}

Next ==
    \/ \E code \in Sources, sandbox \in SandboxArgs, timeout \in CallTimeouts :
         Execute(code, sandbox, timeout)
    \/ \E code \in MonitoredSources : ExecuteWithMonitoring(code)
    \/ \E memory_mb \in MemoryArgs, cpu_limit \in CpuArgs :
         UpdateLimits(memory_mb, cpu_limit)
    \/ Tick
    \/ WorkerExit
    \/ DirectTimeout
    \/ \E uo \in StatsOutcomes, co \in CleanupOutcomes : ExecReturn(uo, co)
    \/ \E e \in ExecRunExcs, uo \in StatsOutcomes, co \in CleanupOutcomes :
         ExecRaise(e, uo, co)
    \/ Done

Spec == Init /\ [][Next]_vars

\* The clock runs, a worker that ends is seen to end, the timeout of
\* subprocess.run fires, and exec_run returns once its command has ended.
\* Nothing makes the environment fail: ExecRaise is not fair.
FairSpec ==
    /\ Spec
    /\ WF_vars(Tick)
    /\ WF_vars(WorkerExit)
    /\ WF_vars(DirectTimeout)
    /\ WF_vars(\E uo \in StatsOutcomes, co \in CleanupOutcomes : ExecReturn(uo, co))

\* ------------------------------------- SandboxExecutor used on its own
\* One SandboxExecutor driven directly (manual management: create_container,
\* execute_in_container, get_resource_usage, cleanup in any order). result is
\* what the last call returned, or [raised |-> e] when e escaped it; exec_on
\* collects the state of the target container at every exec_run submission.
SbInit ==
    /\ tool = [use_sandbox |-> TRUE, memory_limit_mb |-> DefaultMemoryLimitMb,
               cpu_limit |-> DefaultCpuLimit, timeout |-> 1]
    /\ pc = "sandbox"
    /\ call = NoCall
    /\ worker = "none"
    /\ spawns = 0
    /\ elapsed = 0
    /\ sb \in {NewSandbox(DefaultMemoryLimitMb, DefaultCpuLimit, t) : t \in 1..MaxTimeout}
    /\ containers = <<>>
    /\ result = NoResult
    /\ ncalls = 0
    /\ base = 0
    /\ provisions = 0
    /\ exec_on = {}
    /\ teardown = "none"
    /\ exec_end = "none"
    /\ retry = NoRetry
    /\ pool = NoPool
    /\ alarm = NoAlarm

\* the method left m (of Returned or Raised)
SbLeave(m) ==
    /\ UNCHANGED aside
    /\ sb' = m.sb
    /\ containers' = m.containers
    /\ result' = IF m.raised # null THEN [raised |-> m.raised] ELSE m.ret
    /\ ncalls' = ncalls + 1
    /\ UNCHANGED <<tool, pc, worker, spawns, elapsed, base, exec_end>>

\* the method called last, with its arguments
Called(op) == [NoCall EXCEPT !.op = op]

SbCreate(o) ==
    /\ pc = "sandbox"
    /\ ncalls < MaxOps
    /\ Len(containers) < MaxContainers
    /\ SbLeave(create_container(sb, containers, o))
    /\ call' = Called("create_container")
    /\ provisions' = provisions + 1
    /\ UNCHANGED <<exec_on, teardown>>

\* what exec_run does with the command once submitted to container c: it returns
\* when the command ends in a running container, or it raises
ExecRunOutcomes(c, code) ==
    (IF c.state = "running" /\ code.halts THEN {null} ELSE {})
    \cup (IF c.state = "running" THEN ExecRunExcs ELSE {"APIError"})

\* execute_in_container, from entry to return
execute_in_container(s, cs, code, o2, eo) ==
    LET c2 == IF s.container = 0 THEN create_container(s, cs, o2)
                                 ELSE Returned(s, cs, Success)
    IN  IF c2.raised # null THEN c2
        ELSE IF ~c2.ret.success
        THEN Returned(c2.sb, c2.containers, ContainerErrorResult(c2.ret))
        ELSE Returned(c2.sb, c2.containers,
                      IF eo = null
                      THEN ExecRunResult(code.exit, Demux(code.stdout, code.stderr))
                      ELSE ExceptionResult(eo))

\* whether that call of execute_in_container reaches exec_run
ReachesExecRun(s, cs, o2) ==
    LET c2 == IF s.container = 0 THEN create_container(s, cs, o2)
                                 ELSE Returned(s, cs, Success)
    IN  c2.raised = null /\ c2.ret.success

\* the container exec_run is called on
ExecTarget(s, cs, o2) ==
    LET c2 == IF s.container = 0 THEN create_container(s, cs, o2)
                                 ELSE Returned(s, cs, Success)
    IN  c2.containers[c2.sb.container]

SbExecute(code, o2, eo) ==
    /\ pc = "sandbox"
    /\ ncalls < MaxOps
    /\ sb.container = 0 => Len(containers) < MaxContainers
    /\ sb.container # 0 => o2.at = "none"
    /\ IF ReachesExecRun(sb, containers, o2)
       THEN /\ eo \in ExecRunOutcomes(ExecTarget(sb, containers, o2), code)
            /\ exec_on' = exec_on \cup {ExecTarget(sb, containers, o2).state}
       ELSE /\ eo = "APIError"
            /\ UNCHANGED exec_on
    /\ SbLeave(execute_in_container(sb, containers, code, o2, eo))
    /\ call' = [Called("execute_in_container") EXCEPT !.code = code]
    /\ provisions' = provisions + (IF sb.container = 0 THEN 1 ELSE 0)
    /\ UNCHANGED teardown

SbCleanup(o) ==
    /\ pc = "sandbox"
    /\ ncalls < MaxOps
    /\ sb.container = 0 => o.at = "none"
    /\ SbLeave(cleanup(sb, containers, o))
    /\ call' = Called("cleanup")
    /\ teardown' = TeardownOf(sb, cleanup(sb, containers, o))
    /\ UNCHANGED <<provisions, exec_on>>

SbUsage(o) ==
    /\ pc = "sandbox"
    /\ ncalls < MaxOps
    /\ sb.container = 0 => o.exc = null
    /\ SbLeave(Returned(sb, containers, get_resource_usage(sb, containers, o)))
    /\ call' = Called("get_resource_usage")
    /\ UNCHANGED <<provisions, exec_on, teardown>>

\* a container that is gone refuses every update
SbUpdateLimits(memory_mb, cpu_limit, mo, co) ==
    /\ pc = "sandbox"
    /\ ncalls < MaxOps
    /\ memory_mb = Omitted \/ sb.container = 0 => mo = null
    /\ cpu_limit = Omitted \/ sb.container = 0 => co = null
    /\ (sb.container # 0 /\ containers[sb.container].state = "removed") =>
          /\ memory_mb # Omitted => mo # null
          /\ cpu_limit # Omitted => co # null
    /\ SbLeave(update_limits(sb, containers, memory_mb, cpu_limit, mo, co))
    /\ call' = [Called("update_limits") EXCEPT !.memory_mb = memory_mb,
                                               !.cpu_limit = cpu_limit]
    /\ UNCHANGED <<provisions, exec_on, teardown>>

\* the sources handed to execute_in_container
SbSources == {c \in ValidSources : c.dur <= 1}

SbNext ==
    \/ \E o \in CreateOutcomes : SbCreate(o)
    \/ \E code \in SbSources, o2 \in CreateOutcomes, eo \in {null} \cup ExecRunExcs :
         SbExecute(code, o2, eo)
    \/ \E o \in CleanupOutcomes : SbCleanup(o)
    \/ \E o \in StatsOutcomes : SbUsage(o)
    \/ \E memory_mb \in MemoryArgs, cpu_limit \in CpuArgs, mo \in UpdateOutcomes,
          co \in UpdateOutcomes : SbUpdateLimits(memory_mb, cpu_limit, mo, co)

SandboxSpec == SbInit /\ [][SbNext]_vars

\* ------------------------- retry_with_backoff and retry_operation (day_33)
\* One call of the wrapper retry_with_backoff makes of a function (kind
\* "decorator") or of retry_operation (kind "function"). The operation is the
\* environment: each call of it returns, or raises an exception that retry_on
\* holds, or raises another. Delays are whole seconds.
RetryOn == {"ConnectionError", "TimeoutError"}
OperationExcs == RetryOn \cup {"ValueError"}

\* the code execution subsystem is not in use: the specification is named p
Elsewhere(p) ==
    /\ tool = [use_sandbox |-> TRUE, memory_limit_mb |-> DefaultMemoryLimitMb,
               cpu_limit |-> DefaultCpuLimit, timeout |-> 1]
    /\ pc = p
    /\ call = NoCall
    /\ worker = "none"
    /\ spawns = 0
    /\ elapsed = 0
    /\ sb = NewSandbox(DefaultMemoryLimitMb, DefaultCpuLimit, 1)
    /\ containers = <<>>
    /\ result = NoResult
    /\ ncalls = 0
    /\ base = 0
    /\ provisions = 0
    /\ exec_on = {}
    /\ teardown = "none"
    /\ exec_end = "none"

RECURSIVE Pow(_, _)
Pow(b, n) == IF n = 0 THEN 1 ELSE b * Pow(b, n - 1)

Min(a, b) == IF a <= b THEN a ELSE b

\* delay = min(base_delay * (exponential_base ** attempt), max_delay)
BackoffDelay(r) == Min(r.base_delay * Pow(r.exponential_base, r.attempt), r.max_delay)

\* range(max_retries) in place of range(max_retries + 1)
RetryRange_short(max_retries) == 0..(max_retries - 1)

\* for attempt in range(max_retries + 1)
RetryRange(max_retries) == 0..max_retries

\* the test `attempt == max_retries` never true: the last failure is handled
\* as the others
LastAttempt_never(r) == FALSE

\* if attempt == max_retries: raise
LastAttempt(r) == r.attempt = r.max_retries

\* the wrapper (or retry_operation) is entered
RetryInit ==
    /\ Elsewhere("retry")
    /\ pool = NoPool
    /\ alarm = NoAlarm
    /\ \E kind \in {"decorator", "function"}, max_retries \in 0..MaxRetries,
          on_retry \in BOOLEAN :
         /\ kind = "function" => ~on_retry
         /\ retry = [kind |-> kind, max_retries |-> max_retries,
                     base_delay |-> 1, max_delay |-> 3, exponential_base |-> 2,
                     on_retry |-> on_retry,
                     pc |-> "loop", attempt |-> 0, last_exception |-> <<>>,
                     history |-> <<>>, callbacks |-> <<>>, sleeps |-> <<>>,
                     raised |-> <<>>]

\* one turn of the for loop of r, the operation doing o (null: it returns; else
\* the type of what it raises), or the code after the loop once it is exhausted
retry_step(r, o) ==
    LET e == [type |-> o, at |-> r.attempt]
        called == [r EXCEPT !.history = Append(@, e)]
    IN  IF r.attempt \notin RetryRange(r.max_retries)
        THEN \* if last_exception: raise last_exception
             IF r.last_exception # <<>>
             THEN [r EXCEPT !.pc = "raised", !.raised = r.last_exception]
             ELSE [r EXCEPT !.pc = "returned"]
        ELSE IF o = null
        THEN [called EXCEPT !.pc = "returned"]
        ELSE IF o \notin RetryOn
        THEN [called EXCEPT !.pc = "raised", !.raised = <<e>>]
        ELSE IF LastAttempt(r)
        THEN [called EXCEPT !.pc = "raised", !.raised = <<e>>,
                            !.last_exception = <<e>>]
        ELSE [called EXCEPT
                !.last_exception = <<e>>,
                !.callbacks = IF r.on_retry THEN Append(@, <<e, r.attempt + 1>>)
                                            ELSE @,
                !.sleeps = Append(@, BackoffDelay(r)),
                !.attempt = @ + 1]

RetryStep(o) ==
    /\ pc = "retry"
    /\ retry.pc = "loop"
    /\ retry' = retry_step(retry, o)
    /\ UNCHANGED <<toolVars, pool, alarm>>

RetryNext == \E o \in {null} \cup OperationExcs : RetryStep(o)

RetrySpec == RetryInit /\ [][RetryNext]_vars

\* ------------------------------------------------- ConnectionPool (day_37)
\* One ConnectionPool used by Threads concurrently. A connection is an id into
\* pool.conns ("open" or "closed"); pool.queue is self._pool, pool.lock the
\* thread inside `with self._lock` (0: none). Each thread is at a point of the
\* method it is in (pc), with the connection it holds (conn, 0: none) and how
\* its last call ended (res). A thread returns only a connection it got from
\* the pool, once, and takes one connection at a time. The steps are split
\* where another thread can run in between: at every read of _closed and at
\* every operation on the queue.
Threads == 1..MaxThreads

\* sqlite3.connect: the next connection
create_connection(p) == [p EXCEPT !.conns = Append(@, "open")]

\* conn.close()
close(p, c) == [p EXCEPT !.conns[c] = "closed"]

\* thread t leaves the method it is in, holding c, with outcome res
Leave(p, t, c, res) == [p EXCEPT !.th[t] = [pc |-> "idle", conn |-> c, res |-> res]]

\* ConnectionPool.__init__: the queue pre-populated with pool_size connections
PoolInit ==
    /\ Elsewhere("pool")
    /\ retry = NoRetry
    /\ alarm = NoAlarm
    /\ \E pool_size \in 1..MaxPoolSize :
         pool = [size |-> pool_size, closed |-> FALSE, lock |-> 0,
                 queue |-> [i \in 1..pool_size |-> i],
                 conns |-> [i \in 1..pool_size |-> "open"],
                 th |-> [t \in Threads |->
                          [pc |-> "idle", conn |-> 0, res |-> "none"]]]

\* except queue.Empty that makes a connection for the caller
queue_empty_creates(p, t) ==
    Leave(create_connection(p), t, Len(p.conns) + 1, "connection")

\* except queue.Empty: raise ConnectionError("Connection pool timeout")
queue_empty(p, t) == Leave(p, t, 0, "ConnectionError: Connection pool timeout")

\* get_connection, entry: if self._closed: raise ConnectionError
PoolGetEnter(t) ==
    /\ pc = "pool"
    /\ pool.th[t].pc = "idle" /\ pool.th[t].conn = 0
    /\ pool' = IF pool.closed
               THEN Leave(pool, t, 0, "ConnectionError: Connection pool is closed")
               ELSE [pool EXCEPT !.th[t].pc = "get_wait"]
    /\ UNCHANGED <<toolVars, retry, alarm>>

\* self._pool.get(timeout) hands over the head of the queue, then the
\* connection is verified: alive is whether SELECT 1 succeeds on it, created
\* whether sqlite3.connect succeeds when a dead one is replaced
PoolGetTake(t, alive, created) ==
    /\ pc = "pool"
    /\ pool.th[t].pc = "get_wait"
    /\ pool.queue # <<>>
    /\ alive => created
    /\ ~alive /\ created => Len(pool.conns) < MaxConns
    /\ LET c == Head(pool.queue)
           taken == [pool EXCEPT !.queue = Tail(@)]
       IN  pool' = IF alive THEN Leave(taken, t, c, "connection")
                   ELSE IF created
                   THEN Leave(create_connection(close(taken, c)), t,
                              Len(pool.conns) + 1, "connection")
                   ELSE Leave(close(taken, c), t, 0,
                              "ConnectionError: Failed to create connection")
    /\ UNCHANGED <<toolVars, retry, alarm>>

\* self._pool.get(timeout) raises queue.Empty: the queue stayed empty for the
\* whole timeout
PoolGetTimeout(t) ==
    /\ pc = "pool"
    /\ pool.th[t].pc = "get_wait"
    /\ pool.queue = <<>>
    /\ pool' = queue_empty(pool, t)
    /\ UNCHANGED <<toolVars, retry, alarm>>

\* return_connection, entry: if self._closed: conn.close(); return
PoolReturnEnter(t) ==
    /\ pc = "pool"
    /\ pool.th[t].pc = "idle" /\ pool.th[t].conn # 0
    /\ pool' = IF pool.closed
               THEN Leave(close(pool, pool.th[t].conn), t, 0, "closed")
               ELSE [pool EXCEPT !.th[t].pc = "return_put"]
    /\ UNCHANGED <<toolVars, retry, alarm>>

\* self._pool.put_nowait(conn); except queue.Full: conn.close()
PoolReturnPut(t) ==
    /\ pc = "pool"
    /\ pool.th[t].pc = "return_put"
    /\ LET c == pool.th[t].conn
       IN  pool' = IF Len(pool.queue) < pool.size
                   THEN Leave([pool EXCEPT !.queue = Append(@, c)], t, 0, "queued")
                   ELSE Leave(close(pool, c), t, 0, "closed")
    /\ UNCHANGED <<toolVars, retry, alarm>>

\* cleanup, entry: with self._lock: if self._closed: return; self._closed = True
PoolCleanupEnter(t) ==
    /\ pc = "pool"
    /\ pool.th[t].pc = "idle"
    /\ pool.lock = 0
    /\ pool' = IF pool.closed
               THEN Leave(pool, t, pool.th[t].conn, "none")
               ELSE [pool EXCEPT !.closed = TRUE, !.lock = t, !.th[t].pc = "drain"]
    /\ UNCHANGED <<toolVars, retry, alarm>>

\* cleanup, one turn of `while not self._pool.empty()`: get_nowait and close,
\* or the end of the loop and of the with block
PoolCleanupDrain(t) ==
    /\ pc = "pool"
    /\ pool.th[t].pc = "drain"
    /\ pool' = IF pool.queue # <<>>
               THEN [close(pool, Head(pool.queue)) EXCEPT !.queue = Tail(@)]
               ELSE Leave([pool EXCEPT !.lock = 0], t, pool.th[t].conn, "none")
    /\ UNCHANGED <<toolVars, retry, alarm>>

PoolNext ==
    \E t \in Threads :
        \/ PoolGetEnter(t)
        \/ \E alive \in BOOLEAN, created \in BOOLEAN : PoolGetTake(t, alive, created)
        \/ PoolGetTimeout(t)
        \/ PoolReturnEnter(t)
        \/ PoolReturnPut(t)
        \/ PoolCleanupEnter(t)
        \/ PoolCleanupDrain(t)

PoolSpec == PoolInit /\ [][PoolNext]_vars

\* ----------------------------- ResourceLimiter.enforce_time_limit
\* The process calls enforce_time_limit(func, timeout) and, between calls, runs
\* code that has nothing to do with it (alarm.pc = "later"). alarm.pending is
\* the seconds left until the SIGALRM armed by signal.alarm (0: none armed),
\* alarm.handler whether timeout_handler is installed. func is what the wrapped
\* function does: it returns, raises an exception that is no TimeoutError,
\* raises a TimeoutError of its own, each after dur seconds, or never ends.
Funcs ==
    [ends : {"returns", "raises", "raises_timeout"}, dur : 1..(MaxTimeout + 1)]
    \cup {[ends |-> "never", dur |-> 0]}

AlarmInit ==
    /\ Elsewhere("alarm")
    /\ retry = NoRetry
    /\ pool = NoPool
    /\ alarm = [pc |-> "later", pending |-> 0, handler |-> FALSE, timeout |-> 0,
                func |-> CHOOSE f \in Funcs : f.ends = "never", elapsed |-> 0,
                outcome |-> "none", interrupted |-> FALSE, calls |-> 0]

\* enforce_time_limit up to the call of func: signal.signal(SIGALRM,
\* timeout_handler), signal.alarm(timeout)
AlarmCall(func, timeout) ==
    /\ pc = "alarm"
    /\ alarm.pc = "later"
    /\ alarm.calls < MaxCalls
    /\ alarm' = [alarm EXCEPT !.pc = "func", !.handler = TRUE, !.pending = timeout,
                              !.timeout = timeout, !.func = func, !.elapsed = 0,
                              !.outcome = "none", !.calls = @ + 1]
    /\ UNCHANGED <<toolVars, retry, pool>>

\* func ends by itself: `signal.alarm(0); return result` when it returned,
\* `except TimeoutError` when it raised one, no handler for anything else
enforce_time_limit_exit(a) ==
    CASE a.func.ends = "returns" ->
           [a EXCEPT !.pc = "later", !.outcome = "returned", !.pending = 0]
      [] a.func.ends = "raises_timeout" ->
           [a EXCEPT !.pc = "later", !.outcome = "TimeoutError result"]
      [] OTHER ->
           [a EXCEPT !.pc = "later", !.outcome = "raised"]

AlarmFuncEnd ==
    /\ pc = "alarm"
    /\ alarm.pc = "func"
    /\ alarm.func.ends # "never" /\ alarm.elapsed = alarm.func.dur
    /\ alarm' = enforce_time_limit_exit(alarm)
    /\ UNCHANGED <<toolVars, retry, pool>>

\* SIGALRM is delivered: timeout_handler raises TimeoutError in the code that
\* is running, which is func (caught by `except TimeoutError`) or the code the
\* process runs after the call
sigalrm(a) ==
    IF a.pc = "func"
    THEN [a EXCEPT !.pc = "later", !.outcome = "TimeoutError result", !.pending = 0]
    ELSE [a EXCEPT !.interrupted = TRUE, !.pending = 0]

\* one second passes, in func or after the call while an alarm is pending
AlarmTick ==
    /\ pc = "alarm"
    /\ \/ /\ alarm.pc = "func"
          /\ alarm.func.ends = "never" \/ alarm.elapsed < alarm.func.dur
       \/ /\ alarm.pc = "later"
          /\ alarm.pending > 0
    /\ LET a == [alarm EXCEPT
                   !.elapsed = IF alarm.pc = "func" THEN @ + 1 ELSE @,
                   !.pending = IF @ > 0 THEN @ - 1 ELSE 0]
       IN  alarm' = IF alarm.pending = 1 THEN sigalrm(a) ELSE a
    /\ UNCHANGED <<toolVars, retry, pool>>

AlarmNext ==
    \/ \E func \in Funcs, timeout \in 1..MaxTimeout : AlarmCall(func, timeout)
    \/ AlarmFuncEnd
    \/ AlarmTick

AlarmSpec == AlarmInit /\ [][AlarmNext]_vars

\* ------------------------------------------------------------------ claims
MadeContainers == (base + 1)..Len(containers)

\* the call in progress, or just returned, is a call of execute
InExecute == call.op = "execute"

\* C1: a source that fails validate_syntax gets success=false, error_type
\* SyntaxError, a non-null error and sandboxed=false, and the call makes no
\* worker subprocess and no container.
C1_SyntaxShortCircuit ==
    (pc # "idle" /\ InExecute /\ call.code.parse = "syntax") =>
        /\ pc = "returned"
        /\ result.success = FALSE
        /\ result.error_type = "SyntaxError"
        /\ result.error # null
        /\ result.sandboxed = FALSE
        /\ spawns = 0 /\ worker = "none"
        /\ provisions = 0 /\ MadeContainers = {} /\ exec_on = {}

\* a syntax failure returned by a tool whose isolation is on
C1_Witness ==
    pc = "returned" /\ InExecute /\ call.code.parse = "syntax" /\ tool.use_sandbox

\* C2: in every result, success=false comes with a non-null error and a
\* non-null error_type, and success=true with a null error_type.
WellFormed(r) ==
    /\ ~r.success => (r.error # null /\ r.error_type # null)
    /\ r.success => r.error_type = null

C2_ResultWellFormed ==
    /\ (pc = "returned" /\ InExecute) => WellFormed(result)
    /\ (pc = "returned" /\ call.op = "monitor" /\ "execution" \in DOMAIN result) =>
           WellFormed(result.execution)
    \* the executors' own results
    /\ \A code \in ValidSources :
         /\ WellFormed(CompletedResult(code.exit, code.stdout, code.stderr))
         /\ WellFormed(ExecRunResult(code.exit, Demux(code.stdout, code.stderr)))
    /\ \A code \in InvalidSources :
         validate_syntax(code).raised = null =>
             WellFormed(SyntaxErrorResult(validate_syntax(code)))
    /\ \A t \in 1..MaxTimeout : WellFormed(TimeoutResult(t))
    /\ \A e \in ExecRunExcs \cup {"OSError"} : WellFormed(ExceptionResult(e))
    /\ \A e \in DockerExcs : WellFormed(ContainerErrorResult(Failure(e)))

\* a worker that exits non-zero having written nothing to standard error
C2_Witness ==
    /\ pc = "returned" /\ worker = "exited"
    /\ call.code.exit # 0 /\ call.code.stderr = ""
    /\ ~result.success /\ result.error = "" /\ result.error_type = "RuntimeError"

\* C3 (as claimed): when a sandboxed execute has returned, every container made
\* for the call is removed or its cleanup is on record as failed, and none is
\* running with the instance still holding its handle.
C3_TeardownAfterExecute ==
    (pc = "returned" /\ InExecute /\ result.sandboxed) =>
        \A c \in MadeContainers :
            /\ containers[c].state = "removed" \/ teardown \in {"failed", "raised"}
            /\ ~(containers[c].state = "running" /\ sb.container = c)

\* C4 (as claimed): exec_run returned exit status 0 and the cleanup that
\* followed failed: the call still returns success with the captured output.
C4_TeardownKeepsSuccess ==
    (pc = "returned" /\ InExecute /\ exec_end = "returned" /\ call.code.exit = 0
        /\ teardown \in {"failed", "raised"}) =>
        (result.success /\ result.output = call.code.stdout)

\* C5: in direct mode, when the call returns without the worker having exited,
\* the worker has been killed at the timeout and the result is success=false,
\* error_type TimeoutError, with the timeout in the message.
C5_DirectTimeout ==
    (pc = "returned" /\ InExecute /\ spawns = 1 /\ worker \notin {"none", "exited"}) =>
        /\ worker = "killed"
        /\ elapsed = call.timeout
        /\ result.success = FALSE
        /\ result.error_type = "TimeoutError"
        /\ result.error =
             "Execution timed out after " \o ToString(call.timeout) \o " seconds"

\* a program that never ends, killed at the timeout
C5_Witness ==
    /\ pc = "returned" /\ worker = "killed" /\ ~call.code.halts
    /\ result.error_type = "TimeoutError"

\* C6 (as claimed): in either mode the wait of a call ends at its deadline:
\* no call is still waiting once more than its timeout has elapsed.
C6_WaitEndsAtDeadline ==
    (pc \in {"direct_wait", "exec_wait"}) => elapsed <= call.timeout

\* the same as a liveness property, under FairSpec: a call that waits returns
\* (it holds of the direct wait, not of the wait inside exec_run)
ReturnsFrom(wait) == (pc = wait) ~> (pc = "returned")
DirectWaitReturns == ReturnsFrom("direct_wait")
ExecWaitReturns == ReturnsFrom("exec_wait")

\* C7 (as claimed): when the worker ended before the deadline, success is true
\* exactly for exit status 0 and output is the captured standard output.
C7_ExitStatusAndOutput ==
    (pc = "returned" /\ InExecute /\ (worker = "exited" \/ exec_end = "returned")) =>
        /\ result.success <=> (call.code.exit = 0)
        /\ result.output = call.code.stdout

\* C8 (as claimed): no exception escapes execute.
C8_NeverRaises == pc # "raised"

\* C9 (as claimed): exec_run is only ever called on a container that was
\* created and started and has not been torn down.
C9_ExecOnlyWhenReady == exec_on \subseteq {"running"}

\* C10 (as claimed): with use_sandbox=False, execute of a valid source makes
\* one subprocess.run call and no container, and returns sandboxed=false.
C10_DisabledMeansDirect ==
    (pc \in {"direct_wait", "exec_wait", "returned"} /\ InExecute
        /\ ~tool.use_sandbox /\ call.code.parse = "ok") =>
        /\ spawns = 1
        /\ provisions = 0 /\ MadeContainers = {} /\ exec_on = {}
        /\ pc = "returned" => result.sandboxed = FALSE

\* C10 (amended): the same, for calls whose sandbox argument is not true.
C10_DisabledAndNoHintMeansDirect ==
    (pc \in {"direct_wait", "exec_wait", "returned"} /\ InExecute
        /\ ~tool.use_sandbox /\ call.sandbox # "True" /\ call.code.parse = "ok") =>
        /\ spawns = 1
        /\ provisions = 0 /\ MadeContainers = {} /\ exec_on = {}
        /\ pc # "exec_wait"
        /\ pc = "returned" => result.sandboxed = FALSE

\* a direct run to completion with sandbox=False passed explicitly
C10_Witness ==
    /\ pc = "returned" /\ ~tool.use_sandbox /\ call.sandbox = "False"
    /\ worker = "exited" /\ result.success /\ result.sandboxed = FALSE

\* what execute_with_monitoring answers when isolation is off
MonitoringRefusal == [error |-> "Monitoring requires sandbox mode"]

\* C11: execute_with_monitoring on a tool whose isolation is off returns the
\* error "Monitoring requires sandbox mode" without running the source: no
\* worker subprocess and no container are made; and the call gives that answer
\* in no other case.
C11_MonitoringNeedsSandbox ==
    /\ (pc # "idle" /\ call.op = "monitor" /\ ~tool.use_sandbox) =>
          /\ pc = "returned"
          /\ result = MonitoringRefusal
          /\ spawns = 0 /\ worker = "none"
          /\ provisions = 0 /\ MadeContainers = {} /\ exec_on = {}
    /\ (pc = "returned" /\ call.op = "monitor" /\ tool.use_sandbox) =>
          result # MonitoringRefusal

\* a valid source handed to execute_with_monitoring with isolation off
C11_Witness ==
    /\ pc = "returned" /\ call.op = "monitor" /\ ~tool.use_sandbox
    /\ call.code.parse = "ok" /\ result = MonitoringRefusal

\* C12: every container create_container makes has network_mode "none", the
\* memory limit the instance was configured with and a CPU quota of cpu_limit
\* x 100000 (cpu_limit percent of the period) over a period of 100000; code is
\* only ever submitted while every container is without network.
C12_ContainerIsolation ==
    \A c \in 1..Len(containers) :
        /\ containers[c].network_mode = "none"
        /\ containers[c].cpu_period = 100000
        /\ c \in MadeContainers =>
              /\ containers[c].mem_limit = sb.memory_limit_mb
              /\ containers[c].cpu_quota * 100 = sb.cpu_limit * 100000

\* a command running in a container made with limits other than the defaults
C12_Witness ==
    /\ pc = "exec_wait" /\ exec_on = {"running"}
    /\ \E c \in MadeContainers :
         /\ sb.container = c
         /\ containers[c].mem_limit # DefaultMemoryLimitMb
         /\ containers[c].cpu_quota # CpuQuota(DefaultCpuLimit)

\* the instance holds a container that is created, started and not torn down
Ready == sb.container # 0 /\ containers[sb.container].state = "running"

\* C13 (as claimed): when update_limits(memory_mb=M) has returned success on a
\* Ready container and get_resource_usage is the next call, the memory_percent
\* it reports is the usage it reports divided by M.
C13_UsageAgainstNewCeiling ==
    [][(/\ pc = "sandbox" /\ call.op = "update_limits" /\ call.memory_mb # Omitted
        /\ result.success /\ Ready
        /\ call'.op = "get_resource_usage" /\ result'.success) =>
           result'.memory_percent = (result'.memory_mb * 100) \div call.memory_mb[1]]_vars

\* what does hold: the same, when results reports the memory update as applied
UsageAgainstAppliedCeiling ==
    [][(/\ pc = "sandbox" /\ call.op = "update_limits" /\ call.memory_mb # Omitted
        /\ result.success /\ result.results.memory.success /\ Ready
        /\ call'.op = "get_resource_usage" /\ result'.success) =>
           result'.memory_percent = (result'.memory_mb * 100) \div call.memory_mb[1]]_vars

\* C14: CodeExecutionTool.update_limits returns success with the tool's limits
\* after the update, a given argument having replaced the limit and an omitted
\* one having kept the previous value; nothing else changes the tool's limits;
\* and every container a later sandboxed execute makes has exactly those limits.
LimitsReturned ==
    (pc = "returned" /\ call.op = "update_limits") =>
        /\ result.success
        /\ result.memory_mb = tool.memory_limit_mb
        /\ result.cpu_limit = tool.cpu_limit
        /\ call.memory_mb # Omitted => tool.memory_limit_mb = call.memory_mb[1]
        /\ call.cpu_limit # Omitted => tool.cpu_limit = call.cpu_limit[1]

LimitsKept ==
    /\ (call'.op = "update_limits" /\ call'.memory_mb = Omitted) =>
          tool'.memory_limit_mb = tool.memory_limit_mb
    /\ (call'.op = "update_limits" /\ call'.cpu_limit = Omitted) =>
          tool'.cpu_limit = tool.cpu_limit
    /\ call'.op # "update_limits" => tool' = tool

LimitsUsed ==
    InExecute =>
        \A c \in MadeContainers :
            /\ containers[c].mem_limit = tool.memory_limit_mb
            /\ containers[c].cpu_quota * 100 = tool.cpu_limit * 100000

C14_ToolLimitsApply == [](LimitsReturned /\ LimitsUsed) /\ [][LimitsKept]_vars

\* update_limits(memory_mb=M) with cpu_limit omitted, then a sandboxed execute
\* whose container has memory limit M and the CPU quota of before
C14_Witness ==
    /\ pc = "exec_wait" /\ InExecute
    /\ tool.memory_limit_mb # DefaultMemoryLimitMb /\ tool.cpu_limit = DefaultCpuLimit
    /\ \E c \in MadeContainers :
         /\ sb.container = c
         /\ containers[c].mem_limit = tool.memory_limit_mb
         /\ containers[c].cpu_quota = CpuQuota(DefaultCpuLimit)

\* cleanup has stopped and removed a container of the instance
Destroyed == \E c \in 1..Len(containers) : containers[c].state = "removed"

\* C18 (as claimed): once cleanup has stopped and removed the instance's
\* container, no later execute_in_container, get_resource_usage, update_limits
\* or cleanup makes a new container or leaves the instance Ready.
C18_DestroyedIsTerminal ==
    [][(/\ pc = "sandbox" /\ Destroyed
        /\ call'.op \in {"execute_in_container", "get_resource_usage",
                         "update_limits", "cleanup"}) =>
           (Len(containers') = Len(containers) /\ ~Ready')]_vars

\* the call made a provisioning attempt and no command reached a started
\* container: the image, the creation or the start failed
ProvisionFailed == provisions >= 1 /\ exec_on # {"running"}

\* C19 (as claimed): a sandboxed execute whose provisioning failed has called
\* create_container exactly once and returns success=false with error_type
\* ContainerError.
C19_ProvisionOnceContainerError ==
    (pc = "returned" /\ InExecute /\ ProvisionFailed) =>
        /\ provisions = 1
        /\ ~result.success
        /\ result.error_type = "ContainerError"

\* C20 (as claimed): execute and execute_with_monitoring make no worker
\* subprocess and no container for a source that fails validate_syntax.
C20_ValidatedBeforeRun ==
    (pc # "idle" /\ call.op \in {"execute", "monitor"} /\ call.code.parse # "ok") =>
        /\ spawns = 0
        /\ provisions = 0 /\ MadeContainers = {} /\ exec_on = {}

\* the calls of the operation made so far, and those that raised an exception
\* retry_on holds
Calls == Len(retry.history)
AllRetryable == \A i \in 1..Calls : retry.history[i].type \in RetryOn

\* C16: the operation is called at most max_retries + 1 times; when every call
\* of it raised a retryable exception, the retried call ends after exactly
\* max_retries + 1 calls by raising the exception of the last one; with
\* max_retries = 0 that is one call and no sleep.
C16_RetryBound ==
    pc = "retry" =>
        /\ Calls <= retry.max_retries + 1
        /\ (retry.pc # "loop" /\ AllRetryable) =>
              /\ Calls = retry.max_retries + 1
              /\ retry.pc = "raised"
              /\ retry.raised = <<retry.history[Calls]>>
        /\ (retry.pc # "loop" /\ retry.max_retries = 0) =>
              (Calls = 1 /\ retry.sleeps = <<>>)

\* every call raised a retryable exception and the retries are exhausted
C16_Witness ==
    /\ pc = "retry" /\ retry.pc = "raised" /\ AllRetryable
    /\ retry.max_retries = MaxRetries /\ Calls = MaxRetries + 1
    /\ Len(retry.sleeps) = MaxRetries

\* the connections idle in the pool's queue, those checked out to a thread,
\* and those open
Idle == {pool.queue[i] : i \in 1..Len(pool.queue)}
CheckedOut == {pool.th[t].conn : t \in Threads} \ {0}
OpenConns == {c \in 1..Len(pool.conns) : pool.conns[c] = "open"}

\* C17: a get_connection that finds every connection checked out ends at its
\* timeout with ConnectionError and no connection, none being made for it; the
\* idle connections and the checked out ones together never exceed pool_size.
C17_PoolBounded ==
    pc = "pool" =>
        /\ Len(pool.queue) + Cardinality(CheckedOut) <= pool.size
        /\ Idle \cap CheckedOut = {}
        /\ Cardinality(OpenConns) <= pool.size
        /\ \A t \in Threads :
             pool.th[t].res = "ConnectionError: Connection pool timeout" =>
                 pool.th[t].conn = 0

\* every connection of an open pool is checked out and a further
\* get_connection has timed out
C17_Witness ==
    /\ pc = "pool" /\ ~pool.closed
    /\ pool.queue = <<>> /\ Cardinality(CheckedOut) = pool.size
    /\ pool.size = MaxPoolSize
    /\ \E t \in Threads :
         pool.th[t].res = "ConnectionError: Connection pool timeout"

\* C21 (as claimed): a sandboxed execute whose command ran past the call's
\* timeout, and whose teardown went well, returns success=false with
\* error_type TimeoutError.
C21_SandboxTimeoutKind ==
    (pc = "returned" /\ InExecute /\ exec_end # "none" /\ teardown = "ok"
        /\ elapsed > call.timeout) =>
        /\ ~result.success
        /\ result.error_type = "TimeoutError"

\* the error kinds of the design, by the names the code gives them; Internal
\* is ContainerError where the code has a name for it
ErrorKinds ==
    {null, "SyntaxError", "RuntimeError", "TimeoutError", "ContainerError",
     "Internal", "InternalError", "TeardownFailed"}

\* C22 (as claimed): the error_type of every result of execute is null or one
\* of the error kinds.
C22_ClosedErrorKinds ==
    (pc = "returned" /\ InExecute) => result.error_type \in ErrorKinds

\* C23 (as claimed): when the worker wrote to standard output and the execution
\* then failed, by a non-zero exit or at the deadline, the result's output is
\* what the worker wrote.
C23_PartialOutputKept ==
    (pc = "returned" /\ InExecute /\ ~result.success /\ call.code.stdout # ""
        /\ (worker \in {"exited", "killed"}
            \/ (exec_end = "returned" /\ teardown = "ok"))) =>
        result.output = call.code.stdout

\* what does hold: the same for a worker that ended by itself
OutputKeptOnExit ==
    (pc = "returned" /\ InExecute /\ ~result.success /\ call.code.stdout # ""
        /\ (worker = "exited" \/ (exec_end = "returned" /\ teardown = "ok"))) =>
        result.output = call.code.stdout

\* the result of a sandboxed execute whose exec_run returned res, for a sample
\* and a teardown that go as uo and co
ResultAfter(res, uo, co) == AfterExecute(res, sb, containers, uo, co).result

\* the fields of r that belong to the execution
Execution(r) == <<r.success, r.output, r.error, r.error_type>>

\* C24 (as claimed): while a sandboxed execute waits for its command, whatever
\* the sample then does the call returns (AfterExecute raises nothing), the
\* sample's outcome does not change success, output, error or error_type, and
\* the result has resource_usage exactly when the sample succeeded.
C24_SamplingFrame ==
    (pc = "exec_wait" /\ InExecute /\ call.code.halts) =>
        LET res == ExecRunResult(call.code.exit,
                                 Demux(call.code.stdout, call.code.stderr))
        IN  \A co \in CleanupOutcomes, uo \in StatsOutcomes :
              /\ \A uo2 \in StatsOutcomes :
                   Execution(ResultAfter(res, uo, co)) =
                   Execution(ResultAfter(res, uo2, co))
              /\ ("resource_usage" \in DOMAIN ResultAfter(res, uo, co))
                   <=> get_resource_usage(sb, containers, uo).success

\* what does hold: the same, for every teardown that raises nothing, and there
\* the execution fields are those exec_run's result had
SamplingFrameUnlessTeardownRaises ==
    (pc = "exec_wait" /\ InExecute /\ call.code.halts) =>
        LET res == ExecRunResult(call.code.exit,
                                 Demux(call.code.stdout, call.code.stderr))
        IN  \A co \in CleanupOutcomes, uo \in StatsOutcomes :
              cleanup(sb, containers, co).raised = null =>
                /\ Execution(ResultAfter(res, uo, co)) = Execution(res)
                /\ ("resource_usage" \in DOMAIN ResultAfter(res, uo, co))
                     <=> get_resource_usage(sb, containers, uo).success

\* C25: a call of update_limits leaves the instance holding the container it
\* held, makes and removes no container, changes the state of none, changes
\* nothing of a container other than the one held, and leaves alone the quota
\* whose argument is omitted.
UpdateLimitsFrame ==
    (pc = "sandbox" /\ call'.op = "update_limits") =>
        /\ sb'.container = sb.container
        /\ Len(containers') = Len(containers)
        /\ \A c \in 1..Len(containers) :
             /\ containers'[c].state = containers[c].state
             /\ containers'[c].network_mode = containers[c].network_mode
             /\ c # sb.container => containers'[c] = containers[c]
             /\ call'.memory_mb = Omitted =>
                  containers'[c].mem_limit = containers[c].mem_limit
             /\ call'.cpu_limit = Omitted =>
                  /\ containers'[c].cpu_quota = containers[c].cpu_quota
                  /\ containers'[c].cpu_period = containers[c].cpu_period

C25_UpdateLimitsFrame == [][UpdateLimitsFrame]_vars

\* update_limits(memory_mb=M) applied to a Ready container: the memory limit
\* is M and the CPU quota the one of creation
C25_Witness ==
    /\ pc = "sandbox" /\ call.op = "update_limits" /\ Ready
    /\ call.memory_mb # Omitted /\ call.cpu_limit = Omitted
    /\ result.results.memory.success
    /\ containers[sb.container].mem_limit = call.memory_mb[1]
    /\ containers[sb.container].cpu_quota = CpuQuota(sb.cpu_limit)

\* C26: with retry_with_backoff and an on_retry callback, the i-th call of the
\* callback is made after the i-th failed call of the operation and before the
\* next call, with the exception that call raised and the number i; once the
\* retried call has ended there is one callback call less than operation
\* calls, so none follows the last call, failed or successful. Without a
\* callback, and in retry_operation, nothing is called back.
C26_CallbackBeforeEachRetry ==
    pc = "retry" =>
        /\ \A i \in 1..Len(retry.callbacks) :
             retry.callbacks[i] = <<retry.history[i], i>>
        /\ retry.on_retry =>
             /\ retry.pc = "loop" => Len(retry.callbacks) = Calls
             /\ retry.pc # "loop" => Len(retry.callbacks) = Calls - 1
        /\ ~retry.on_retry => retry.callbacks = <<>>

\* the operation succeeds at its last permitted call, every failure before it
\* having been called back
C26_Witness ==
    /\ pc = "retry" /\ retry.pc = "returned" /\ retry.on_retry
    /\ Calls = MaxRetries + 1 /\ Len(retry.callbacks) = MaxRetries
    /\ retry.callbacks[MaxRetries][2] = MaxRetries

\* C27 (as claimed): every container the instance has created is the one it
\* holds or has been stopped and removed.
C27_HandleNeverDropped ==
    pc = "sandbox" =>
        \A c \in 1..Len(containers) :
            c = sb.container \/ containers[c].state = "removed"

\* C28 (as claimed): update_limits returns success=true only when every quota
\* update it was asked to make was applied.
C28_UpdateSuccessMeansApplied ==
    (pc = "sandbox" /\ call.op = "update_limits" /\ result.success) =>
        /\ call.memory_mb # Omitted =>
             /\ result.results.memory.success
             /\ containers[sb.container].mem_limit = call.memory_mb[1]
        /\ call.cpu_limit # Omitted =>
             /\ result.results.cpu.success
             /\ containers[sb.container].cpu_quota = CpuQuota(call.cpu_limit[1])

\* cleanup has run to its end: the pool is closed and no thread is in cleanup
CleanupCompleted == pool.closed /\ pool.lock = 0

\* C29 (as claimed): once cleanup has completed, no open connection is idle
\* in the pool's queue.
C29_NoIdleAfterCleanup ==
    (pc = "pool" /\ CleanupCompleted) =>
        \A c \in Idle : pool.conns[c] = "closed"

\* what does hold: a return_connection that starts after cleanup has completed
\* closes the connection and queues nothing
ReturnAfterCleanupCloses ==
    [][(/\ pc = "pool" /\ CleanupCompleted
        /\ \E t \in Threads :
             /\ pool.th[t].pc = "idle" /\ pool.th[t].conn # 0
             /\ pool'.th[t].conn = 0) =>
           (/\ pool'.queue = pool.queue
            /\ \A t \in Threads :
                 (pool.th[t].conn # 0 /\ pool'.th[t].conn = 0) =>
                     pool'.conns[pool.th[t].conn] = "closed")]_vars

\* C30 (as claimed): once enforce_time_limit has returned or raised, no alarm
\* it armed is pending, and the code that runs afterwards is never interrupted
\* by one.
C30_AlarmCancelledOnExit ==
    (pc = "alarm" /\ alarm.pc = "later") =>
        (alarm.pending = 0 /\ ~alarm.interrupted)

\* what does hold: the same after a call that func ended by returning, or that
\* the alarm itself ended
AlarmGoneAfterReturnOrTimeout ==
    (pc = "alarm" /\ alarm.pc = "later" /\ alarm.calls = 1
        /\ (alarm.func.ends = "returns" \/ alarm.elapsed < alarm.func.dur
            \/ alarm.func.ends = "never")) =>
        (alarm.pending = 0 /\ ~alarm.interrupted)

====
